---- MODULE Spec2Model ----
(***************************************************************************)
(* Calculation solitaire: the board model, move generation, the heuristic  *)
(* evaluator and the two searches (best-first and IDA) of calculation.py,  *)
(* and the board of calculation-refactor.py.                               *)
(*                                                                         *)
(* Conventions.  Piles and decks are Python lists; a TLA+ sequence holds   *)
(* element i of the list at index i+1.  Pile numbers, deck cursors and     *)
(* move entries keep the Python numbering (piles 0..7, deck_i = 8).        *)
(* priority() divides by 4; the model computes 4 * priority() in integers, *)
(* which orders boards exactly as the floats do (quarters are exact).      *)
(***************************************************************************)
EXTENDS Integers, Sequences, FiniteSets, TLC

VARIABLES
    mode,            \* which entry point runs: "walk", "rwalk", "bfs", "ida"
    deck,            \* Calculation.deck: the game's shared deck
    board,           \* the current CalculationBoard (walk) / board popped by play_bfs
    rboard,          \* the current board of calculation-refactor.py (rwalk)
    played,          \* Calculation.played
    boards,          \* play_bfs: the PriorityQueue's heap list
    stack,           \* play_ida: the activation records of dfs
    threshold,       \* Calculation.threshold
    next_threshold,  \* Calculation.next_threshold
    pc,              \* position of the running entry point
    best_board       \* the board the entry point returned (None until then)

vars == <<mode, deck, board, rboard, played, boards, stack, threshold,
          next_threshold, pc, best_board>>

-----------------------------------------------------------------------------
(* Program constants *)

cards_per_suit == 5
deck_i == 8
k_pile == 4
lookahead == 4

(* Bounds of the model *)

\* the walk follows the boards whose move log holds at most this many
\* placements of a drawn card on a waste pile
MaxWaste == 1
\* the walk over the refactored board follows the boards with at most this
\* many cards on the waste piles
MaxRWaste == 2
\* caller-fixed decks of the solver runs hold at most this many cards to draw
MaxShort == 1

None == [none |-> TRUE]

\* thresholds: math.inf, or a finite priority (4 * the Python value)
inf == [inf |-> TRUE, val |-> 0]

Fin(n) == [inf |-> FALSE, val |-> n]

\* cost <= t and cost < t for a finite cost and a threshold t
\* the test of dfs with < in place of <=
CostLeq_strict(cost, t) == t.inf \/ cost < t.val

CostLeq(cost, t) == t.inf \/ cost <= t.val

CostLt(cost, t) == t.inf \/ cost < t.val

-----------------------------------------------------------------------------
(* Sequence helpers *)

Last(s) == s[Len(s)]

ButLast(s) == SubSeq(s, 1, Len(s) - 1)

Range(s) == {s[i] : i \in 1..Len(s)}

RECURSIVE SumSeq(_)
SumSeq(s) == IF s = <<>> THEN 0 ELSE s[1] + SumSeq(Tail(s))

MaxOf(S) == CHOOSE x \in S : \A y \in S : y <= x

MinOf(S) == CHOOSE x \in S : \A y \in S : x <= y

\* list.index(x): position (from 0) of the first occurrence
IndexOf(s, x) == MinOf({i \in 1..Len(s) : s[i] = x}) - 1

-----------------------------------------------------------------------------
(* CalculationBoard (calculation.py) *)

\* the pile with Python number pile_i
Pile(b, pile_i) == b.piles[pile_i + 1]

NewBoard ==
    [piles |-> <<<<1>>, <<2>>, <<3>>, <<4>>, <<>>, <<>>, <<>>, <<>>>>,
     last_used |-> 3,
     n_moves |-> 0,
     moves |-> <<>>,
     kings_seen |-> 0]

is_foundation(pile_i) == pile_i < 4

is_waste(pile_i) == pile_i > 3

\* nth_card that steps by one instead of by the base
nth_card_step(base, n) == (base + n) % cards_per_suit

nth_card(base, n) == (base + base * n) % cards_per_suit

next_card(b, pile_i) == nth_card(Pile(b, pile_i)[1], Len(Pile(b, pile_i)))

valid_set_nolen(b, card, dest) ==
    IF is_waste(dest) THEN TRUE ELSE card = next_card(b, dest)

valid_set(b, card, dest) ==
    IF is_waste(dest)
    THEN TRUE
    ELSE Len(Pile(b, dest)) < cards_per_suit /\ card = next_card(b, dest)

valid_move(b, src, dest) ==
    /\ is_waste(src)
    /\ is_foundation(dest)
    /\ valid_set(b, Last(Pile(b, src)), dest)

play_drawn_nocursor(b, card, dest) ==
    [b EXCEPT !.piles[dest + 1] = Append(@, card),
              !.n_moves = @ + 1,
              !.moves = Append(@, <<deck_i, dest>>),
              !.kings_seen = IF card = 0 THEN @ + 1 ELSE @]

play_drawn(b, card, dest) ==
    [b EXCEPT !.piles[dest + 1] = Append(@, card),
              !.last_used = @ + 1,
              !.n_moves = @ + 1,
              !.moves = Append(@, <<deck_i, dest>>),
              !.kings_seen = IF card = 0 THEN @ + 1 ELSE @]

\* move_card that does not append to the move log
move_card_nolog(b, src, dest) ==
    [b EXCEPT !.piles[src + 1] = ButLast(@),
              !.piles[dest + 1] = Append(@, Last(Pile(b, src))),
              !.n_moves = @ + 1]

move_card(b, src, dest) ==
    [b EXCEPT !.piles[src + 1] = ButLast(@),
              !.piles[dest + 1] = Append(@, Last(Pile(b, src))),
              !.n_moves = @ + 1,
              !.moves = Append(@, <<src, dest>>)]

\* distance from the top of the pile of the first occurrence of card, for the
\* waste piles that hold it
BuriedDists(b, card) ==
    {Len(Pile(b, w)) - IndexOf(Pile(b, w), card) :
        w \in {w \in 4..7 : card \in Range(Pile(b, w))}}

\* the loop "for i in range(4)" of buried_cost for one foundation, from step i
RECURSIVE BuriedLoop(_, _, _, _)
BuriedLoop(b, found, card, i) ==
    IF i >= lookahead \/ card = found[1]
    THEN 0
    ELSE (IF BuriedDists(b, card) = {}
          THEN 0
          ELSE MinOf(BuriedDists(b, card)) * (cards_per_suit - Len(found) - i))
         + BuriedLoop(b, found, (card + found[1]) % cards_per_suit, i + 1)

buried_cost(b) ==
    SumSeq([f \in 1..4 |->
        BuriedLoop(b, b.piles[f], nth_card(b.piles[f][1], Len(b.piles[f])), 0)])

\* 4 * priority()
priority(b) ==
    LET found_sizes == {Len(b.piles[f]) : f \in 1..4}
        waste_sizes == {Len(b.piles[w]) : w \in 5..8}
        progress == SumSeq([f \in 1..4 |-> Len(b.piles[f])])
        distance == (cards_per_suit * 4) - (b.last_used + 1)
        found_diff == MaxOf(found_sizes) - MinOf(found_sizes)
        waste_diff == MaxOf(waste_sizes) - MinOf(waste_sizes)
        difficulty == buried_cost(b)
    IN  4 * distance + 4 * difficulty + (found_diff + waste_diff) - 4 * progress

\* __lt__
BoardLt(a, b) == priority(a) < priority(b)

\* __str__: the text shows the priority, the move count, the cards drawn, the
\* deck size and the eight piles, each printed injectively
BoardStr(b) ==
    <<priority(b), b.n_moves, b.last_used + 1, cards_per_suit * 4, b.piles>>

\* __eq__ (and __hash__, which hashes the same text)
BoardEq(a, b) == BoardStr(a) = BoardStr(b)

\* __repr__
BoardRepr(b) == b.piles

-----------------------------------------------------------------------------
(* Calculation (calculation.py) *)

\* Calculation.values
values == [i \in 1..cards_per_suit |-> i % cards_per_suit]

\* Calculation.winning
winning ==
    [base \in 1..4 |-> [i \in 1..cards_per_suit |-> (base * values[i]) % cards_per_suit]]

is_winning_first(b) == b.piles[1] = winning[1]

is_winning(b) == SubSeq(b.piles, 1, 4) = winning

\* declared, never implemented: always False
is_lost(b) == FALSE

\* b in pl, for a set pl of boards: same hash and __eq__
InPlayed(pl, b) == \E p \in pl : BoardEq(p, b)

\* precedes with the successor taken modulo cards_per_suit
precedes_mod(b, card, nxt) ==
    IF card = 0
    THEN FALSE
    ELSE \E i \in 0..3 :
            /\ nxt = (card + Pile(b, i)[1]) % cards_per_suit
            /\ card \notin Range(Pile(b, i))

\* pl.add(b)
PlayedAdd(pl, b) == IF InPlayed(pl, b) THEN pl ELSE pl \cup {b}

precedes(b, card, nxt) ==
    IF card = 0
    THEN FALSE
    ELSE \E i \in 0..3 :
            /\ nxt = card + Pile(b, i)[1]
            /\ card \notin Range(Pile(b, i))

\* the loop over waste_i of ranked_wastes_short_term, from pile waste_i on;
\* pl is self.played at the time of the call
RECURSIVE RankedLoop(_, _, _, _, _)
RankedLoop(card, b, pl, waste_i, waste_moves) ==
    IF waste_i > 7
    THEN waste_moves
    ELSE LET next_board == play_drawn(b, card, waste_i)
             waste_pile == Pile(b, waste_i)
             after ==
                IF InPlayed(pl, next_board)
                THEN waste_moves
                ELSE IF Len(waste_pile) > 0 /\ precedes(b, card, Last(waste_pile))
                THEN <<next_board>> \o waste_moves
                ELSE IF waste_i = k_pile
                THEN (IF card = 0 \/ b.kings_seen = 4
                      THEN Append(waste_moves, next_board)
                      ELSE waste_moves)
                ELSE IF ~(card = cards_per_suit)
                THEN Append(waste_moves, next_board)
                ELSE waste_moves
         IN  RankedLoop(card, b, pl, waste_i + 1, after)

\* ranked_wastes_short_term that offers no waste pile
ranked_wastes_none(card, b, pl) ==
    <<>>

\* a policy that holds every waste pile to the rule of the king pile
ranked_wastes_kings_only(card, b, pl) ==
    LET Keep(waste_i) ==
            /\ ~InPlayed(pl, play_drawn(b, card, waste_i))
            /\ (card = 0 \/ b.kings_seen = 4)
        ws == SelectSeq(<<4, 5, 6, 7>>, Keep)
    IN  [k \in 1..Len(ws) |-> play_drawn(b, card, ws[k])]

ranked_wastes_short_term(card, b, pl) == RankedLoop(card, b, pl, 4, <<>>)

\* ranked_wastes_simple: the drawn card on each of the four waste piles, the
\* shortest pile first
ranked_wastes_simple(card, b) ==
    LET Before(j, i) ==
            \/ Len(Pile(b, j)) < Len(Pile(b, i))
            \/ Len(Pile(b, j)) = Len(Pile(b, i)) /\ j < i
        waste_lens == [k \in 1..4 |->
            CHOOSE i \in 4..7 : Cardinality({j \in 4..7 : Before(j, i)}) = k - 1]
    IN  [k \in 1..4 |-> play_drawn(b, card, waste_lens[k])]

\* the (waste_i, found_i) pairs in the order of the two nested loops
WasteFoundPairs == [k \in 1..16 |-> <<4 + ((k - 1) \div 4), (k - 1) % 4>>]

ChildrenFromWaste_anydest(b) ==
    LET all == [k \in 1..32 |-> <<4 + ((k - 1) \div 8), (k - 1) % 8>>]
        Playable(m) ==
            Len(Pile(b, m[1])) > 0 /\ m[1] # m[2] /\ valid_set(b, Last(Pile(b, m[1])), m[2])
        ms == SelectSeq(all, Playable)
    IN  [k \in 1..Len(ms) |-> move_card(b, ms[k][1], ms[k][2])]

\* the boards the first loop of children appends
ChildrenFromWaste(b) ==
    LET Playable(m) == Len(Pile(b, m[1])) > 0 /\ valid_move(b, m[1], m[2])
        ms == SelectSeq(WasteFoundPairs, Playable)
    IN  [k \in 1..Len(ms) |-> move_card(b, ms[k][1], ms[k][2])]

\* "Check all foundations" that tries foundation 0 only
ChildrenToFoundation_first(b, card) ==
    IF valid_set(b, card, 0) THEN <<play_drawn(b, card, 0)>> ELSE <<>>

\* the boards of "Check all foundations"
ChildrenToFoundation(b, card) ==
    LET Fits(found_i) == valid_set(b, card, found_i)
        fs == SelectSeq(<<0, 1, 2, 3>>, Fits)
    IN  [k \in 1..Len(fs) |-> play_drawn(b, card, fs[k])]

\* children(board) when self.played is pl
children(b, pl) ==
    ChildrenFromWaste(b) \o
    (IF b.last_used < Len(deck) - 1
     THEN ChildrenToFoundation(b, deck[b.last_used + 2]) \o
          ranked_wastes_short_term(deck[b.last_used + 2], b, pl)
     ELSE <<>>)

\* every move of the game from b: those of children, with the drawn card on
\* any waste pile
LegalChildren(b) ==
    ChildrenFromWaste(b) \o
    (IF b.last_used < Len(deck) - 1
     THEN ChildrenToFoundation(b, deck[b.last_used + 2]) \o
          ranked_wastes_simple(deck[b.last_used + 2], b)
     ELSE <<>>)

-----------------------------------------------------------------------------
(* Decks *)

\* random_deck before the shuffle: 4 suits, the first four cards set apart
all_values == values \o values \o values \o values

non_foundation == SubSeq(all_values, 5, Len(all_values))

Reverse(s) == [i \in 1..Len(s) |-> s[Len(s) + 1 - i]]

\* each foundation's missing cards in its order, round-robin over foundations
RoundRobin == <<2, 4, 1, 3,  3, 1, 4, 2,  4, 3, 2, 1,  0, 0, 0, 0>>

\* outcomes of random.shuffle(non_foundation) the model plays
\* foundation 1 is complete after four draws, and its base card comes next
AceFirst == <<2, 3, 4, 0,  1, 4, 0, 2,  3, 0, 2, 1,  0, 4, 1, 3>>

\* the four kings come last, and cards have to wait on the waste piles
KingsLast == <<3, 1, 4, 4,  1, 2, 3, 1,  2, 2, 4, 3,  0, 0, 0, 0>>

\* outcomes of random.shuffle(non_foundation) the walk plays
Shuffles == {AceFirst, non_foundation}

\* outcomes of random.shuffle(non_foundation) the solvers play
SolverShuffles == {RoundRobin, Reverse(RoundRobin), non_foundation, KingsLast}

\* caller-fixed decks (the deck argument of Calculation): the four base cards
\* and up to MaxShort cards to draw
ShortDecks ==
    {SubSeq(all_values, 1, 4) \o t :
        t \in UNION {[1..n -> 0..(cards_per_suit - 1)] : n \in 0..MaxShort}}

\* a caller-fixed deck of three aces to draw
ThreeAces == <<1, 1, 1>>

SolverDecks ==
    {SubSeq(all_values, 1, 4) \o s : s \in SolverShuffles} \cup ShortDecks
    \cup {SubSeq(all_values, 1, 4) \o ThreeAces}

\* random_deck
random_deck == {SubSeq(all_values, 1, 4) \o s : s \in Shuffles}

-----------------------------------------------------------------------------
(* CalculationBoard (calculation-refactor.py) *)

NUM_FOUNDATIONS == 4
NUM_WASTES == 4

FOUNDATION == "F"
WASTE == "W"
DECK == "D"

CardLocation(pile_type, pile_index) ==
    [pile_type |-> pile_type, pile_index |-> pile_index]

Move(src, dest) == [src |-> src, dest |-> dest]

\* CalculationBoard(cards_per_suit, deck); pile j of the lists is at index j+1
RNewBoard(d) ==
    [foundations |-> [j \in 1..NUM_FOUNDATIONS |-> <<j>>],
     wastes |-> [j \in 1..NUM_WASTES |-> <<>>],
     deck |-> d]

\* generate_random_deck: the shuffles the model plays
generate_random_deck == Shuffles \cup {Reverse(s) : s \in Shuffles}

r_is_winning(rb) == rb.foundations = winning

can_play_on_foundation_notop(rb, card_to_play, foundation_index) ==
    LET foundation == rb.foundations[foundation_index + 1]
    IN  card_to_play = (Last(foundation) + foundation[1]) % cards_per_suit

can_play_on_foundation(rb, card_to_play, foundation_index) ==
    LET foundation == rb.foundations[foundation_index + 1]
        top_card == Last(foundation)
        base_card == foundation[1]
    IN  IF top_card = 0
        THEN FALSE
        ELSE card_to_play = (top_card + base_card) % cards_per_suit

\* the (i, j) pairs in the order of the nested loops over wastes and foundations
RWasteFoundPairs ==
    [k \in 1..(NUM_WASTES * NUM_FOUNDATIONS) |->
        <<(k - 1) \div NUM_FOUNDATIONS, (k - 1) % NUM_FOUNDATIONS>>]

get_possible_moves_from_waste(rb) ==
    LET Playable(m) ==
            /\ rb.wastes[m[1] + 1] # <<>>
            /\ can_play_on_foundation(rb, Last(rb.wastes[m[1] + 1]), m[2])
        ms == SelectSeq(RWasteFoundPairs, Playable)
    IN  [k \in 1..Len(ms) |->
            Move(CardLocation(WASTE, ms[k][1]), CardLocation(FOUNDATION, ms[k][2]))]

\* get_possible_moves_from_deck whose empty-deck test guards the foundation
\* moves only
get_possible_moves_from_deck_wastes(rb) ==
    LET src == CardLocation(DECK, 0)
        Fits(j) == rb.deck # <<>> /\ can_play_on_foundation(rb, Last(rb.deck), j)
        fs == SelectSeq([j \in 1..NUM_FOUNDATIONS |-> j - 1], Fits)
    IN  [k \in 1..Len(fs) |-> Move(src, CardLocation(FOUNDATION, fs[k]))] \o
        [i \in 1..NUM_WASTES |-> Move(src, CardLocation(WASTE, i - 1))]

get_possible_moves_from_deck(rb) ==
    IF rb.deck = <<>>
    THEN <<>>
    ELSE LET src == CardLocation(DECK, 0)
             Fits(j) == can_play_on_foundation(rb, Last(rb.deck), j)
             fs == SelectSeq([j \in 1..NUM_FOUNDATIONS |-> j - 1], Fits)
         IN  [k \in 1..Len(fs) |-> Move(src, CardLocation(FOUNDATION, fs[k]))] \o
             [i \in 1..NUM_WASTES |-> Move(src, CardLocation(WASTE, i - 1))]

get_possible_moves(rb) ==
    get_possible_moves_from_waste(rb) \o get_possible_moves_from_deck(rb)

\* what a call raises instead of returning a board
Raised(exc) == [raised |-> exc]

\* the bare name InvalidMoveException is not in scope inside the static method
\* (the class is an attribute of CalculationBoard), so both raise statements
\* raise NameError
apply_move_to_board(rb, move) ==
    LET src == move.src
        dest == move.dest
        card == IF src.pile_type = DECK
                THEN Last(rb.deck)
                ELSE Last(rb.wastes[src.pile_index + 1])
        popped ==
            IF src.pile_type = DECK
            THEN [rb EXCEPT !.deck = ButLast(@)]
            ELSE [rb EXCEPT !.wastes[src.pile_index + 1] = ButLast(@)]
    IN  IF src.pile_type \notin {DECK, WASTE}
        THEN Raised("NameError")
        ELSE IF (IF src.pile_type = DECK
                 THEN rb.deck = <<>>
                 ELSE rb.wastes[src.pile_index + 1] = <<>>)
        THEN Raised("IndexError")
        ELSE IF dest.pile_type = FOUNDATION
        THEN [popped EXCEPT !.foundations[dest.pile_index + 1] = Append(@, card)]
        ELSE IF dest.pile_type = WASTE
        THEN [popped EXCEPT !.wastes[dest.pile_index + 1] = Append(@, card)]
        ELSE Raised("NameError")

-----------------------------------------------------------------------------
(* Walk over the boards children() generates *)

\* the deck-to-waste entries of the board's move log
WastePlacements(b) ==
    Cardinality({k \in 1..Len(b.moves) : b.moves[k][1] = deck_i /\ is_waste(b.moves[k][2])})

InitWalk ==
    /\ mode = "walk"
    /\ deck \in random_deck
    /\ board = NewBoard
    /\ rboard = None
    /\ played = {}
    /\ boards = <<>>
    /\ stack = <<>>
    /\ threshold = inf
    /\ next_threshold = inf
    /\ pc = "walk"
    /\ best_board = None

\* one generated move is applied to the current board
Step ==
    /\ mode = "walk"
    /\ LET cs == children(board, played)
       IN  \E k \in 1..Len(cs) :
              /\ WastePlacements(cs[k]) <= MaxWaste
              /\ board' = cs[k]
    /\ UNCHANGED <<mode, deck, rboard, played, boards, stack, threshold,
                   next_threshold, pc, best_board>>

RWasteCount(rb) == SumSeq([w \in 1..NUM_WASTES |-> Len(rb.wastes[w])])

InitRWalk ==
    /\ mode = "rwalk"
    /\ deck \in generate_random_deck
    /\ board = NewBoard
    /\ rboard = RNewBoard(deck)
    /\ played = {}
    /\ boards = <<>>
    /\ stack = <<>>
    /\ threshold = inf
    /\ next_threshold = inf
    /\ pc = "rwalk"
    /\ best_board = None

\* play_game's step with any choice of the player: one possible move is applied
RStep ==
    /\ mode = "rwalk"
    /\ LET ms == get_possible_moves(rboard)
       IN  \E k \in 1..Len(ms) :
              /\ RWasteCount(apply_move_to_board(rboard, ms[k])) <= MaxRWaste
              /\ rboard' = apply_move_to_board(rboard, ms[k])
    /\ UNCHANGED <<mode, deck, board, played, boards, stack, threshold,
                   next_threshold, pc, best_board>>

-----------------------------------------------------------------------------
(* queue.PriorityQueue over boards: heapq on a list, ordered by __lt__ *)

\* heapq._siftdown from newitem's hole at pos (positions count from 0)
RECURSIVE SiftDownLoop(_, _, _, _)
SiftDownLoop(heap, startpos, pos, newitem) ==
    IF pos > startpos /\ BoardLt(newitem, heap[((pos - 1) \div 2) + 1])
    THEN SiftDownLoop([heap EXCEPT ![pos + 1] = heap[((pos - 1) \div 2) + 1]],
                      startpos, (pos - 1) \div 2, newitem)
    ELSE [heap EXCEPT ![pos + 1] = newitem]

siftdown(heap, startpos, pos) == SiftDownLoop(heap, startpos, pos, heap[pos + 1])

\* heapq._siftup: the smaller child bubbles up until a leaf, then _siftdown
RECURSIVE SiftUpLoop(_, _, _, _, _)
SiftUpLoop(heap, startpos, pos, childpos, newitem) ==
    IF childpos < Len(heap)
    THEN LET rightpos == childpos + 1
             c == IF rightpos < Len(heap)
                     /\ ~BoardLt(heap[childpos + 1], heap[rightpos + 1])
                  THEN rightpos
                  ELSE childpos
         IN  SiftUpLoop([heap EXCEPT ![pos + 1] = heap[c + 1]],
                        startpos, c, 2 * c + 1, newitem)
    ELSE siftdown([heap EXCEPT ![pos + 1] = newitem], startpos, pos)

siftup(heap, pos) == SiftUpLoop(heap, pos, pos, 2 * pos + 1, heap[pos + 1])

\* boards.put(item)
put(heap, item) == siftdown(Append(heap, item), 0, Len(heap))

\* the board boards.get() returns from a non-empty queue
get(heap) == heap[1]

\* the heap boards.get() leaves
after_get(heap) ==
    IF Len(heap) = 1
    THEN <<>>
    ELSE siftup([ButLast(heap) EXCEPT ![1] = Last(heap)], 0)

\* truth value of the queue object in "while boards:": PriorityQueue defines
\* neither __bool__ nor __len__, so the object is true whatever it holds
while_boards(heap) == TRUE

\* dfs without children.sort(): the generated order is kept
sort_none(bs) ==
    bs

\* list.sort() of boards: stable, by __lt__
RECURSIVE sort(_)
sort(bs) ==
    IF bs = <<>>
    THEN <<>>
    ELSE LET x == Last(bs)
             sorted == sort(ButLast(bs))
             NotAfter(e) == ~BoardLt(x, e)
             After(e) == BoardLt(x, e)
         IN  SelectSeq(sorted, NotAfter) \o <<x>> \o SelectSeq(sorted, After)

-----------------------------------------------------------------------------
(* play_bfs *)

\* the loop "for child in children: if child not in self.played: boards.put(child)"
RECURSIVE PutChildren(_, _, _)
PutChildren(heap, cs, pl) ==
    IF cs = <<>>
    THEN heap
    ELSE PutChildren(IF InPlayed(pl, cs[1]) THEN heap ELSE put(heap, cs[1]),
                     Tail(cs), pl)

InitSolve ==
    /\ mode \in {"bfs", "ida"}
    /\ deck \in SolverDecks
    /\ board = None
    /\ rboard = None
    /\ played = {}
    /\ boards = <<>>
    /\ stack = <<>>
    /\ threshold = inf
    /\ next_threshold = inf
    /\ pc = "start"
    /\ best_board = None

\* play_bfs up to the loop: the queue holds the new board
PlayBfs ==
    /\ mode = "bfs" /\ pc = "start"
    /\ boards' = put(<<>>, NewBoard)
    /\ pc' = "loop"
    /\ UNCHANGED <<mode, deck, board, rboard, played, stack, threshold,
                   next_threshold, best_board>>

\* one iteration of the loop of play_bfs on a queue that holds a board
BfsIteration ==
    /\ mode = "bfs" /\ pc = "loop" /\ while_boards(boards) /\ boards # <<>>
    /\ LET b == get(boards)
           pl == PlayedAdd(played, b)
       IN  /\ board' = b
           /\ played' = pl
           /\ IF is_winning(b)
              THEN /\ boards' = after_get(boards)
                   /\ best_board' = b
                   /\ pc' = "returned"
              ELSE /\ boards' = PutChildren(after_get(boards), children(b, pl), pl)
                   /\ UNCHANGED <<best_board, pc>>
    /\ UNCHANGED <<mode, deck, rboard, stack, threshold, next_threshold>>

\* the loop test and boards.get() on a queue that holds nothing: the test is
\* true, and get() waits for a put that no one makes
BfsEmpty ==
    /\ mode = "bfs" /\ pc = "loop" /\ boards = <<>>
    /\ pc' = IF while_boards(boards) THEN "blocked" ELSE "returned"
    /\ UNCHANGED <<mode, deck, board, rboard, played, boards, stack, threshold,
                   next_threshold, best_board>>

-----------------------------------------------------------------------------
(* play_ida and dfs *)

\* the activation record of dfs(b): its sorted children and the loop position
Frame(b, pl) == [board |-> b, children |-> sort(children(b, pl)), i |-> 1]

Top == stack[Len(stack)]

\* stack with the loop of its top record moved to the next child
Advance(st) == [st EXCEPT ![Len(st)].i = @ + 1]

\* play_ida up to the first call of dfs
PlayIda ==
    /\ mode = "ida" /\ pc = "start"
    /\ threshold' = Fin(priority(NewBoard))
    /\ next_threshold' = inf
    /\ stack' = <<Frame(NewBoard, played)>>
    /\ pc' = "dfs"
    /\ UNCHANGED <<mode, deck, board, rboard, played, boards, best_board>>

\* one iteration of the loop of dfs in the innermost call
DfsChild ==
    /\ mode = "ida" /\ pc = "dfs" /\ stack # <<>>
    /\ Top.i <= Len(Top.children)
    /\ LET child == Top.children[Top.i]
           cost == priority(child)
       IN  IF is_winning(child)
           THEN \* (False, child) is returned through every caller
                /\ stack' = <<>>
                /\ best_board' = child
                /\ pc' = "pass_end"
                /\ UNCHANGED next_threshold
           ELSE IF is_lost(child)
           THEN /\ stack' = [stack EXCEPT ![Len(stack)].i = Len(Top.children) + 1]
                /\ UNCHANGED <<best_board, pc, next_threshold>>
           ELSE IF CostLeq(cost, threshold)
           THEN /\ stack' = Append(stack, Frame(child, played))
                /\ UNCHANGED <<best_board, pc, next_threshold>>
           ELSE IF CostLt(cost, next_threshold)
           THEN /\ next_threshold' = Fin(cost)
                /\ stack' = Advance(stack)
                /\ UNCHANGED <<best_board, pc>>
           ELSE /\ stack' = Advance(stack)
                /\ UNCHANGED <<best_board, pc, next_threshold>>
    /\ UNCHANGED <<mode, deck, board, rboard, played, boards, threshold>>

\* the innermost call of dfs has tried every child: it returns (True, None)
DfsReturn ==
    /\ mode = "ida" /\ pc = "dfs" /\ stack # <<>>
    /\ Top.i > Len(Top.children)
    /\ IF Len(stack) = 1
       THEN /\ stack' = <<>>
            /\ pc' = "pass_end"
       ELSE /\ stack' = Advance(ButLast(stack))
            /\ pc' = pc
    /\ UNCHANGED <<mode, deck, board, rboard, played, boards, threshold,
                   next_threshold, best_board>>

\* the rest of the loop body of play_ida after dfs(root) returned, and the
\* loop test: without a winner the next pass starts
PassEnd ==
    /\ mode = "ida" /\ pc = "pass_end"
    /\ threshold' = next_threshold
    /\ next_threshold' = inf
    /\ IF best_board = None
       THEN /\ stack' = <<Frame(NewBoard, played)>>
            /\ pc' = "dfs"
       ELSE /\ stack' = <<>>
            /\ pc' = "returned"
    /\ UNCHANGED <<mode, deck, board, rboard, played, boards, best_board>>

NextSolve == PlayBfs \/ BfsIteration \/ BfsEmpty \/ PlayIda \/ DfsChild \/ DfsReturn \/ PassEnd

SpecSolve == InitSolve /\ [][NextSolve]_vars

Init == InitWalk \/ InitRWalk

Next == Step \/ RStep

Spec == Init /\ [][Next]_vars

-----------------------------------------------------------------------------
(* Properties *)

\* the boards generated from the walk's current board
Generated == Range(children(board, played))

\* the move that made a generated board
MoveOf(child) == Last(child.moves)

\* the possible moves of the walk's current refactored board
RGenerated == Range(get_possible_moves(rboard))

PileTotal(b) == SumSeq([p \in 1..8 |-> Len(b.piles[p])])

\* C1: on a deck of random_deck, every board reached by generated moves holds
\* in its 8 piles, together with the undrawn cards (deck length - last_used - 1),
\* 4 * cards_per_suit cards
C1_Conservation ==
    mode = "walk" =>
        PileTotal(board) + (Len(deck) - board.last_used - 1) = 4 * cards_per_suit

\* a board reached by drawing onto a waste pile, moving that card to a
\* foundation and drawing again
C1_Witness ==
    /\ mode = "walk"
    /\ \E k \in 1..Len(board.moves) : board.moves[k][1] \in 4..7
    /\ Last(board.moves)[1] = deck_i
    /\ board.n_moves >= 6

\* the boards the best-first search holds: popped ones and the frontier
BfsBoards == played \cup Range(boards)

\* C2: two boards compare equal exactly when their 8 piles are equal, whatever
\* their move counts and move logs
C2_EqualIffSamePiles ==
    \A a \in BfsBoards : \A b \in BfsBoards :
        BoardEq(a, b) <=> a.piles = b.piles

\* C3: when play_bfs finds its frontier empty and has popped no winning board,
\* its next step is to return the no-solution outcome
C3_BfsExhaustedReturns ==
    [][(mode = "bfs" /\ pc = "loop" /\ boards = <<>>)
          => (pc' = "returned" /\ best_board' = None)]_vars

\* C4: when a pass of play_ida ends with no winner and next_threshold still
\* +infinity, play_ida returns instead of starting another pass
C4_IdaExhaustedReturns ==
    [][(mode = "ida" /\ pc = "pass_end" /\ best_board = None /\ next_threshold.inf)
          => pc' = "returned"]_vars

\* foundation pile i (base i) holds its whole target sequence
Complete(b, i) ==
    /\ Len(b.piles[i]) = cards_per_suit
    /\ \A k \in 0..(cards_per_suit - 1) : b.piles[i][k + 1] = (i + i * k) % cards_per_suit

\* C5: a board that play_bfs or play_ida returns has its four foundations
\* complete and equal to the target sequences
C5_ReturnedIsWinning ==
    (pc = "returned" /\ best_board # None) =>
        \A i \in 1..4 : Complete(best_board, i) /\ best_board.piles[i] = winning[i]

\* play_ida returned a board that went through the waste piles
C5_Witness ==
    /\ mode = "ida" /\ pc = "returned" /\ best_board # None
    /\ \E k \in 1..Len(best_board.moves) : best_board.moves[k][1] \in 4..7

\* the card a move from src would place: a waste pile's top card, or the next
\* undrawn card
HasSource(b, src) ==
    IF src = deck_i THEN b.last_used < Len(deck) - 1 ELSE Pile(b, src) # <<>>

SourceCard(b, src) ==
    IF src = deck_i THEN deck[b.last_used + 2] ELSE Last(Pile(b, src))

\* a winning board is reachable from b by moves of the game
RECURSIVE LegalWinnable(_)
LegalWinnable(b) ==
    \/ is_winning(b)
    \/ LET cs == LegalChildren(b)
       IN  \E k \in 1..Len(cs) : LegalWinnable(cs[k])

\* the solver has returned, or has no board left to try: play_bfs waits on an
\* empty queue, or a pass of play_ida found no winner and cut off no child
SearchOver ==
    \/ pc \in {"returned", "blocked"}
    \/ mode = "ida" /\ pc = "pass_end" /\ best_board = None /\ next_threshold.inf

\* the card of the k-th entry of a move log, when that entry draws from the deck
DrawnAt(moves, k) == deck[4 + Cardinality({j \in 1..k : moves[j][1] = deck_i})]

\* the kings drawn before the k-th entry of a move log
KingsBefore(moves, k) ==
    Cardinality({j \in 1..(k - 1) : moves[j][1] = deck_i /\ DrawnAt(moves, j) = 0})

\* the boards whose children a solver has asked for
Expanded ==
    (IF mode = "bfs" /\ board # None THEN {board} ELSE {}) \cup
    {stack[i].board : i \in 1..Len(stack)}

\* the placements of the drawn card on a waste pile that played does not hold
OpenPlacements(b) ==
    {c \in Range(ranked_wastes_simple(SourceCard(b, deck_i), b)) : ~InPlayed(played, c)}

\* the placements of the drawn card that children() generates
PolicyPlacements(b) ==
    Range(ranked_wastes_short_term(SourceCard(b, deck_i), b, played))

\* on a deck from which a winning board is reachable by moves of the game, a
\* search that is over has returned a winning board
SolverWins ==
    (SearchOver /\ LegalWinnable(NewBoard)) =>
        (pc = "returned" /\ best_board # None /\ is_winning(best_board))

LegalEntry(m) ==
    \/ m[1] = deck_i /\ m[2] \in 0..7
    \/ m[1] \in 4..7 /\ m[2] \in 0..3

\* C7: no generated move starts at a foundation or goes from a waste pile to a
\* waste pile, so every entry of a reachable board's move log is (deck, pile)
\* or (waste, foundation); the possible moves of the refactored board likewise
C7_Legality ==
    /\ mode = "walk" =>
          /\ \A c \in Generated : LegalEntry(MoveOf(c))
          /\ \A k \in 1..Len(board.moves) : LegalEntry(board.moves[k])
    /\ mode = "rwalk" =>
          \A m \in RGenerated :
              /\ m.src.pile_type \in {WASTE, DECK}
              /\ m.src.pile_type = WASTE => m.dest.pile_type = FOUNDATION

\* a board whose log holds a waste-to-foundation move and for which a
\* placement of the next card on a waste pile is generated
C7_Witness ==
    /\ mode = "walk"
    /\ \E k \in 1..Len(board.moves) : board.moves[k][1] \in 4..7
    /\ \E c \in Generated : MoveOf(c)[1] = deck_i /\ is_waste(MoveOf(c)[2])

\* C8: a move onto foundation f from a source (a non-empty waste pile, or the
\* deck when cards are left) is generated exactly when f holds fewer than
\* cards_per_suit cards and the source card is (base + base * len(f)) mod
\* cards_per_suit
C8_FoundationRule ==
    mode = "walk" =>
        \A f \in 0..3 : \A src \in 4..8 :
            (\E c \in Generated : MoveOf(c) = <<src, f>>)
            <=> /\ HasSource(board, src)
                /\ Len(Pile(board, f)) < cards_per_suit
                /\ SourceCard(board, src) =
                      ((f + 1) + (f + 1) * Len(Pile(board, f))) % cards_per_suit

\* a complete foundation whose base card is the next card of the deck, beside
\* a foundation that takes the card
C8_Witness ==
    /\ mode = "walk"
    /\ \E f \in 0..3 :
          /\ Len(Pile(board, f)) = cards_per_suit
          /\ HasSource(board, deck_i)
          /\ SourceCard(board, deck_i) = f + 1
    /\ \E c \in Generated : MoveOf(c)[1] = deck_i /\ is_foundation(MoveOf(c)[2])

\* C9: no foundation holds more than cards_per_suit cards, and no generated
\* move goes to a foundation that holds cards_per_suit cards (both boards)
C9_FoundationBound ==
    /\ mode = "walk" =>
          /\ \A f \in 0..3 : Len(Pile(board, f)) <= cards_per_suit
          /\ \A c \in Generated :
                is_foundation(MoveOf(c)[2]) =>
                    Len(Pile(board, MoveOf(c)[2])) < cards_per_suit
    /\ mode = "rwalk" =>
          /\ \A j \in 1..NUM_FOUNDATIONS : Len(rboard.foundations[j]) <= cards_per_suit
          /\ \A m \in RGenerated :
                m.dest.pile_type = FOUNDATION =>
                    Len(rboard.foundations[m.dest.pile_index + 1]) < cards_per_suit

\* the refactored board with a complete foundation whose base card is the
\* next card of the deck
C9_Witness ==
    /\ mode = "rwalk"
    /\ rboard.deck # <<>>
    /\ \E j \in 1..NUM_FOUNDATIONS :
          /\ Len(rboard.foundations[j]) = cards_per_suit
          /\ Last(rboard.deck) = j

\* C10: is_winning is true of a board exactly when each foundation i holds
\* cards_per_suit cards, card k being (i + i * k) mod cards_per_suit
C10_WinningCheck ==
    mode = "walk" => (is_winning(board) <=> \A i \in 1..4 : Complete(board, i))

\* a winning board
C10_Witness == mode = "walk" /\ is_winning(board)

\* C11: in a play_bfs run no two boards of the frontier have the same 8
\* piles, and no board of the frontier has the 8 piles of a visited board
C11_EnqueuedOnce ==
    mode = "bfs" =>
        /\ \A i \in 1..Len(boards) : \A j \in 1..Len(boards) :
              boards[i].piles = boards[j].piles => i = j
        /\ \A b \in Range(boards) : \A p \in played : b.piles # p.piles

\* the deck of the game holds the base cards and then the cards of s
DeckIs(s) == deck = SubSeq(all_values, 1, 4) \o s

\* C12: on the round-robin deck a search that is over has returned a winning
\* board whose move log is 16 moves from the deck to a foundation
C12_RoundRobinSixteen ==
    (DeckIs(RoundRobin) /\ SearchOver) =>
        /\ pc = "returned" /\ best_board # None /\ is_winning(best_board)
        /\ Len(best_board.moves) = 16
        /\ \A k \in 1..Len(best_board.moves) :
              best_board.moves[k][1] = deck_i /\ best_board.moves[k][2] \in 0..3

\* play_bfs returned on the round-robin deck
C12_Witness ==
    /\ DeckIs(RoundRobin) /\ mode = "bfs" /\ pc = "returned"
    /\ best_board # None /\ best_board.n_moves = 16

\* C13 as stated: on the reverse of the round-robin deck a search that is over
\* has found no winning board
C13_ReverseNoSolution ==
    (DeckIs(Reverse(RoundRobin)) /\ SearchOver) => best_board = None

\* C13: on the reverse of the round-robin deck a search that is over has
\* returned a winning board, and its log puts cards on waste piles
C13_ReverseIsWon ==
    (DeckIs(Reverse(RoundRobin)) /\ SearchOver) =>
        /\ pc = "returned" /\ best_board # None /\ is_winning(best_board)
        /\ \E k \in 1..Len(best_board.moves) :
              best_board.moves[k][1] = deck_i /\ best_board.moves[k][2] \in 4..7

\* play_ida returned on the reverse of the round-robin deck
C13_Witness ==
    /\ DeckIs(Reverse(RoundRobin)) /\ mode = "ida" /\ pc = "returned"
    /\ best_board # None /\ best_board.n_moves > 16

\* the piles a refactored move can name
RLocations ==
    {CardLocation(t, j) : t \in {FOUNDATION, WASTE}, j \in 0..3} \cup
    {CardLocation(DECK, 0)}

\* the moves on rb that break the move contract: a foundation as source, waste
\* to waste, or a foundation placement get_possible_moves does not offer
ContractViolations(rb) ==
    {m \in {Move(s, d) : s \in RLocations, d \in RLocations \ {CardLocation(DECK, 0)}} :
        \/ m.src.pile_type = FOUNDATION
        \/ m.src.pile_type = WASTE /\ m.dest.pile_type = WASTE
        \/ m.dest.pile_type = FOUNDATION /\ m \notin Range(get_possible_moves(rb))}

\* the call failed with the error of the move contract and returned no board
FailsInvalidMove(result) == result = Raised("InvalidMoveException")

\* C14: on every board of a game, applying a move that breaks the move contract
\* (foundation source, waste to waste, a foundation placement that was not
\* offered) fails with InvalidMoveException and returns no board
C14_InvalidMoveFails ==
    /\ mode = "rwalk" =>
          \A m \in ContractViolations(rboard) :
              FailsInvalidMove(apply_move_to_board(rboard, m))
    /\ mode = "walk" =>
          /\ \A src \in 4..7 : \A dest \in 4..7 :
                (Pile(board, src) # <<>> /\ src # dest) =>
                    FailsInvalidMove(move_card(board, src, dest))
          /\ \A dest \in 0..3 :
                (board.last_used < Len(deck) - 1
                 /\ ~valid_set(board, deck[board.last_used + 2], dest)) =>
                    FailsInvalidMove(play_drawn(board, deck[board.last_used + 2], dest))

-----------------------------------------------------------------------------
(* Objects: the lists of a board are mutable objects held by reference *)

\* a board object at address a, its 8 pile lists behind the list at a + 1, its
\* move list at a + 10
Store(b, a) ==
    (a :> [piles |-> a + 1, moves |-> a + 10, last_used |-> b.last_used,
           n_moves |-> b.n_moves, kings_seen |-> b.kings_seen]) @@
    (a + 1 :> [j \in 1..8 |-> a + 1 + j]) @@
    [x \in (a + 2)..(a + 9) |-> b.piles[x - a - 1]] @@
    (a + 10 :> b.moves)

\* the board an object denotes
Load(mem, a) ==
    [piles |-> [j \in 1..8 |-> mem[mem[mem[a].piles][j]]],
     last_used |-> mem[a].last_used,
     n_moves |-> mem[a].n_moves,
     moves |-> mem[mem[a].moves],
     kings_seen |-> mem[a].kings_seen]

\* copy.copy: a new board object that shares the parent's lists
copy_shallow(mem, a, fresh) ==
    (fresh :> mem[a]) @@ mem

\* deepcopy(self): a new object for the board and for every list it reaches
deepcopy(mem, a, fresh) ==
    Store(Load(mem, a), fresh) @@ mem

\* play_drawn as the statements of its body, on objects
play_drawn_obj(mem, self, card, dest, fresh) ==
    LET m1 == deepcopy(mem, self, fresh)
        bcopy == fresh
        m2 == [m1 EXCEPT ![m1[m1[bcopy].piles][dest + 1]] = Append(@, card)]
        m3 == [m2 EXCEPT ![bcopy].last_used = @ + 1]
        m4 == [m3 EXCEPT ![bcopy].n_moves = @ + 1]
        m5 == [m4 EXCEPT ![m4[bcopy].moves] = Append(@, <<deck_i, dest>>)]
        m6 == IF card = 0
              THEN [m5 EXCEPT ![bcopy].kings_seen = @ + 1]
              ELSE m5
    IN  [mem |-> m6, result |-> bcopy]

\* move_card as the statements of its body, on objects
move_card_obj(mem, self, src, dest, fresh) ==
    LET m1 == deepcopy(mem, self, fresh)
        bcopy == fresh
        card == Last(m1[m1[m1[bcopy].piles][src + 1]])
        m2 == [m1 EXCEPT ![m1[m1[bcopy].piles][src + 1]] = ButLast(@)]
        m3 == [m2 EXCEPT ![m2[m2[bcopy].piles][dest + 1]] = Append(@, card)]
        m4 == [m3 EXCEPT ![bcopy].n_moves = @ + 1]
        m5 == [m4 EXCEPT ![m4[bcopy].moves] = Append(@, <<src, dest>>)]
    IN  [mem |-> m5, result |-> bcopy]

\* a refactored board object at address a: the foundation lists behind a + 1,
\* the waste lists behind a + 6, the deck list at a + 11
RStore(rb, a) ==
    (a :> [foundations |-> a + 1, wastes |-> a + 6, deck |-> a + 11]) @@
    (a + 1 :> [j \in 1..NUM_FOUNDATIONS |-> a + 1 + j]) @@
    [x \in (a + 2)..(a + 5) |-> rb.foundations[x - a - 1]] @@
    (a + 6 :> [j \in 1..NUM_WASTES |-> a + 6 + j]) @@
    [x \in (a + 7)..(a + 10) |-> rb.wastes[x - a - 6]] @@
    (a + 11 :> rb.deck)

RLoad(mem, a) ==
    [foundations |-> [j \in 1..NUM_FOUNDATIONS |-> mem[mem[mem[a].foundations][j]]],
     wastes |-> [j \in 1..NUM_WASTES |-> mem[mem[mem[a].wastes][j]]],
     deck |-> mem[mem[a].deck]]

\* deepcopy(board) of a refactored board
r_deepcopy(mem, a, fresh) ==
    RStore(RLoad(mem, a), fresh) @@ mem

\* apply_move_to_board as the statements of its body, on objects, for a move
\* whose pops do not fail
apply_move_to_board_obj(mem, b, move, fresh) ==
    LET m1 == r_deepcopy(mem, b, fresh)
        new_board == fresh
        srcaddr == IF move.src.pile_type = DECK
                   THEN m1[new_board].deck
                   ELSE m1[m1[new_board].wastes][move.src.pile_index + 1]
        card == Last(m1[srcaddr])
        m2 == [m1 EXCEPT ![srcaddr] = ButLast(@)]
        destaddr == IF move.dest.pile_type = FOUNDATION
                    THEN m2[m2[new_board].foundations][move.dest.pile_index + 1]
                    ELSE m2[m2[new_board].wastes][move.dest.pile_index + 1]
        m3 == [m2 EXCEPT ![destaddr] = Append(@, card)]
    IN  [mem |-> m3, result |-> new_board]

-----------------------------------------------------------------------------
(* Properties of the object model *)

\* the call returned a new board that is `child`, and the parent, the object
\* at address 0, is still `b`
NewBoardParentKept(call, b, child) ==
    /\ call.result # 0
    /\ Load(call.mem, call.result) = child
    /\ Load(call.mem, 0) = b

RNewBoardParentKept(call, rb, child) ==
    /\ call.result # 0
    /\ RLoad(call.mem, call.result) = child
    /\ RLoad(call.mem, 0) = rb

\* C15: on every board of a game, play_drawn, move_card and apply_move_to_board
\* return a new board and leave the parent as it was (piles, cursor, move
\* count, move log, kings_seen; the refactored board's piles and deck list)
C15_ParentUnchanged ==
    /\ mode = "walk" =>
          /\ \A dest \in 0..7 :
                board.last_used < Len(deck) - 1 =>
                    NewBoardParentKept(
                        play_drawn_obj(Store(board, 0), 0,
                                       deck[board.last_used + 2], dest, 12),
                        board, play_drawn(board, deck[board.last_used + 2], dest))
          /\ \A src \in 4..7 : \A dest \in 0..7 :
                (Pile(board, src) # <<>> /\ src # dest) =>
                    NewBoardParentKept(
                        move_card_obj(Store(board, 0), 0, src, dest, 12),
                        board, move_card(board, src, dest))
    /\ mode = "rwalk" =>
          \A m \in RGenerated :
              RNewBoardParentKept(
                  apply_move_to_board_obj(RStore(rboard, 0), 0, m, 12),
                  rboard, apply_move_to_board(rboard, m))

\* a board of the walk that was made by moves, with a card to draw and a card
\* on a waste pile: both play_drawn and move_card apply to it
C15_Witness ==
    /\ mode = "walk" /\ board.n_moves >= 2
    /\ board.last_used < Len(deck) - 1
    /\ \E w \in 4..7 : Pile(board, w) # <<>>

\* one entry of a move log applied to b: a deck entry plays the next undrawn
\* card to the logged pile, any other entry moves the top card of the logged pile
ReplayMove(b, entry) ==
    IF entry[1] = deck_i
    THEN play_drawn(b, deck[b.last_used + 2], entry[2])
    ELSE move_card(b, entry[1], entry[2])

RECURSIVE ReplayFrom(_, _, _)
ReplayFrom(b, moves, k) ==
    IF k > Len(moves) THEN b ELSE ReplayFrom(ReplayMove(b, moves[k]), moves, k + 1)

\* the move log replayed from the initial board
Replay(moves) == ReplayFrom(NewBoard, moves, 1)

\* C16: the move log of every board of a game, replayed from the initial board
\* of the same deck, gives the 8 piles of that board
C16_ReplayReproduces ==
    mode = "walk" => Replay(board.moves).piles = board.piles

\* a board whose log has deck entries and a waste-to-foundation entry
C16_Witness ==
    /\ mode = "walk"
    /\ \E k \in 1..Len(board.moves) : board.moves[k][1] = deck_i
    /\ \E k \in 1..Len(board.moves) : board.moves[k][1] \in 4..7

\* C17: on a board with every deck card drawn, every generated move goes from
\* a waste pile to a foundation, and the generator of deck moves returns none
C17_ExhaustedDeck ==
    /\ (mode = "walk" /\ board.last_used = Len(deck) - 1) =>
          \A c \in Generated :
              is_waste(MoveOf(c)[1]) /\ MoveOf(c)[1] # deck_i /\ is_foundation(MoveOf(c)[2])
    /\ (mode = "rwalk" /\ rboard.deck = <<>>) =>
          /\ get_possible_moves_from_deck(rboard) = <<>>
          /\ \A m \in RGenerated :
                m.src.pile_type = WASTE /\ m.dest.pile_type = FOUNDATION

\* the refactored board with an empty deck and a waste card that can be played
C17_Witness ==
    /\ mode = "rwalk" /\ rboard.deck = <<>>
    /\ RGenerated # {}

\* the priorities of the children that a pass of dfs from b with threshold t
\* generates and does not recurse into
RECURSIVE PrunedCosts(_, _)
PrunedCosts(b, t) ==
    UNION {IF t.inf \/ priority(c) <= t.val
           THEN PrunedCosts(c, t)
           ELSE {priority(c)} : c \in Range(children(b, played))}

\* the loop of the innermost dfs is at a child that is not winning
AtLosingChild ==
    /\ mode = "ida" /\ pc = "dfs" /\ stack # <<>>
    /\ Top.i <= Len(Top.children)
    /\ ~is_winning(Top.children[Top.i])

\* the step called dfs on the child the loop was at
Recursed ==
    /\ Len(stack') = Len(stack) + 1
    /\ stack'[Len(stack')].board = Top.children[Top.i]

\* C18: dfs recurses into a child that is not winning exactly when the child's
\* priority is at most the threshold, and at the end of a pass without a winner
\* next_threshold is the least priority of the children of that pass that were
\* above the threshold, +infinity when there is none
C18_ThresholdRule ==
    /\ [][AtLosingChild =>
            (Recursed <=> (threshold.inf \/
                           priority(Top.children[Top.i]) <= threshold.val))]_vars
    /\ [](mode = "ida" /\ pc = "pass_end" /\ best_board = None =>
            next_threshold =
                (IF PrunedCosts(NewBoard, threshold) = {} THEN inf
                 ELSE Fin(MinOf(PrunedCosts(NewBoard, threshold)))))

\* the end of a pass that went below the root, found no winner and left
\* children above the threshold
C18_Witness ==
    /\ mode = "ida" /\ pc = "pass_end" /\ best_board = None
    /\ ~next_threshold.inf
    /\ \E c \in Range(children(NewBoard, played)) : priority(c) <= threshold.val

\* the child is one that dfs calls itself on under threshold t
Descends(c, t) == ~is_winning(c) /\ (t.inf \/ priority(c) <= t.val)

\* the piles of the boards a completed call dfs(b) expanded under threshold t
RECURSIVE SubtreeExpanded(_, _)
SubtreeExpanded(b, t) ==
    {b.piles} \cup
    UNION {SubtreeExpanded(c, t) :
              c \in {c \in Range(children(b, played)) : Descends(c, t)}}

\* the piles of the boards expanded in this pass before the innermost call:
\* the callers, and the calls that returned
ExpandedEarlier ==
    {stack[k].board.piles : k \in 1..(Len(stack) - 1)} \cup
    UNION {SubtreeExpanded(stack[k].children[j], threshold) :
              <<k, j>> \in {<<k, j>> \in (1..Len(stack)) \X (1..4 * cards_per_suit) :
                              /\ j < stack[k].i
                              /\ j <= Len(stack[k].children)
                              /\ Descends(stack[k].children[j], threshold)}}

\* C19: in a play_ida run every board dfs is expanding is recorded in played,
\* and the board of the innermost call has the 8 piles of no board expanded
\* earlier in the pass
C19_IdaDuplicateTracker ==
    (mode = "ida" /\ pc = "dfs" /\ stack # <<>>) =>
        /\ \A k \in 1..Len(stack) : InPlayed(played, stack[k].board)
        /\ Top.board.piles \notin ExpandedEarlier

\* pile k_pile of b holds kings only
KingsOnly(b) == \A x \in Range(Pile(b, k_pile)) : x = 0

\* C20: every board of a game with kings_seen < 4, and every child generated
\* for a board of a game with kings_seen < 4, holds only kings in pile 4
C20_KingPileReserved ==
    mode = "walk" =>
        /\ board.kings_seen < 4 => KingsOnly(board)
        /\ \A c \in Generated : c.kings_seen < 4 => KingsOnly(c)

\* a king lies on pile 4, fewer than 4 kings are drawn, the next card is not a
\* king and is offered a waste pile
C20_Witness ==
    /\ mode = "walk" /\ board.kings_seen < 4
    /\ Pile(board, k_pile) # <<>>
    /\ HasSource(board, deck_i) /\ SourceCard(board, deck_i) # 0
    /\ \E c \in Generated : MoveOf(c)[1] = deck_i /\ is_waste(MoveOf(c)[2])

\* card (not a king) comes directly before the top card of waste pile w on the
\* sequence of a foundation that does not hold card yet, modulo cards_per_suit
ModularPredecessor(b, card, w) ==
    /\ card # 0
    /\ Pile(b, w) # <<>>
    /\ \E i \in 0..3 :
          /\ Last(Pile(b, w)) = (card + Pile(b, i)[1]) % cards_per_suit
          /\ card \notin Range(Pile(b, i))

\* the place of the placement on pile w in a list of boards made by play_drawn,
\* 0 when the list has no placement on w
PlaceOf(ms, w) ==
    IF \E k \in 1..Len(ms) : MoveOf(ms[k])[2] = w
    THEN CHOOSE k \in 1..Len(ms) : MoveOf(ms[k])[2] = w
    ELSE 0

\* C21: for the next card of every board of a game, the placement on a waste
\* pile whose top card the card precedes modulo cards_per_suit is ranked ahead
\* of the placement on every waste pile without that relation
C21_ChainRankedFirst ==
    (mode = "walk" /\ HasSource(board, deck_i)) =>
        LET card == SourceCard(board, deck_i)
            ms == ranked_wastes_short_term(card, board, played)
        IN  \A w \in 4..7 : \A v \in 4..7 :
                (ModularPredecessor(board, card, w)
                 /\ ~ModularPredecessor(board, card, v)) =>
                    /\ PlaceOf(ms, w) # 0
                    /\ PlaceOf(ms, v) # 0 => PlaceOf(ms, w) < PlaceOf(ms, v)

\* the depths from the top (the top card is at depth 1, as len - index counts
\* it) of every occurrence of card in every waste pile
AllDepths(b, card) ==
    UNION {{Len(Pile(b, w)) - (k - 1) :
               k \in {k \in 1..Len(Pile(b, w)) : Pile(b, w)[k] = card}} :
           w \in 4..7}

\* the sum for one foundation with the least depth over all occurrences
RECURSIVE MinDepthLoop(_, _, _, _)
MinDepthLoop(b, found, card, i) ==
    IF i >= lookahead \/ card = found[1]
    THEN 0
    ELSE (IF AllDepths(b, card) = {}
          THEN 0
          ELSE MinOf(AllDepths(b, card)) * (cards_per_suit - Len(found) - i))
         + MinDepthLoop(b, found, (card + found[1]) % cards_per_suit, i + 1)

MinDepthCost(b) ==
    SumSeq([f \in 1..4 |->
        MinDepthLoop(b, b.piles[f], nth_card(b.piles[f][1], Len(b.piles[f])), 0)])

\* C22: for every board of a game and every child generated for it,
\* buried_cost is the sum, over the looked-ahead cards found in the waste, of
\* the least depth over all occurrences times
\* (cards_per_suit - len(foundation) - lookahead index)
C22_BuriedCostMinDepth ==
    mode = "walk" =>
        \A b \in Generated \cup {board} : buried_cost(b) = MinDepthCost(b)

\* C23: in the sorted list of children of every board dfs is expanding, no
\* placement of the drawn card on a waste pile stands before a placement on a
\* foundation
C23_FoundationsTriedFirst ==
    mode = "ida" =>
        \A k \in 1..Len(stack) :
            \A i \in 1..Len(stack[k].children) : \A j \in 1..Len(stack[k].children) :
                (/\ MoveOf(stack[k].children[i])[1] = deck_i
                 /\ MoveOf(stack[k].children[i])[2] \in 4..7
                 /\ MoveOf(stack[k].children[j])[2] \in 0..3) => j < i

\* the board was made by putting the drawn card on a waste pile
DeckToWaste(c) == MoveOf(c)[1] = deck_i /\ MoveOf(c)[2] \in 4..7

\* the board was made by putting a card on a foundation
ToFoundation(c) == MoveOf(c)[2] \in 0..3

\* C23 (amended): children() lists every foundation placement before every
\* placement of the drawn card on a waste pile, and dfs tries the children of
\* every board it expands in ascending priority, so a waste placement is tried
\* before a foundation placement only when its priority is strictly lower
C23_PriorityThenFoundations ==
    mode = "ida" =>
        \A k \in 1..Len(stack) :
            LET gen == children(stack[k].board, played)
                cs == stack[k].children
            IN  /\ \A i \in 1..Len(gen) : \A j \in 1..Len(gen) :
                      (DeckToWaste(gen[i]) /\ ToFoundation(gen[j])) => j < i
                /\ Range(cs) = Range(gen) /\ Len(cs) = Len(gen)
                /\ \A i \in 1..Len(cs) : \A j \in 1..Len(cs) :
                      /\ i < j => priority(cs[i]) <= priority(cs[j])
                      /\ (i < j /\ DeckToWaste(cs[i]) /\ ToFoundation(cs[j]))
                             => priority(cs[i]) < priority(cs[j])

\* dfs is expanding a board for which a waste placement is tried before a
\* foundation placement
C23_Witness ==
    /\ mode = "ida" /\ pc = "dfs" /\ stack # <<>>
    /\ \E i \in 1..Len(Top.children) : \E j \in 1..Len(Top.children) :
          i < j /\ DeckToWaste(Top.children[i]) /\ ToFoundation(Top.children[j])

-----------------------------------------------------------------------------
(* old_priority (calculation-refactor.py) *)

NUM_SUITS == 4

\* the distance term of old_priority
old_distance(rb) ==
    cards_per_suit * NUM_SUITS - Len(rb.deck)

\* 4 * old_priority(board)
old_priority(rb) ==
    LET foundation_lens == {Len(rb.foundations[j]) : j \in 1..NUM_FOUNDATIONS}
        waste_lens == {Len(rb.wastes[j]) : j \in 1..NUM_WASTES}
        progress == SumSeq([j \in 1..NUM_FOUNDATIONS |-> Len(rb.foundations[j])])
        foundation_diff == MaxOf(foundation_lens) - MinOf(foundation_lens)
        waste_diff == MaxOf(waste_lens) - MinOf(waste_lens)
        difficulty == 1
    IN  4 * old_distance(rb) + 4 * difficulty + (foundation_diff + waste_diff)
        - 4 * progress

\* C24: on every refactored board of a game the distance term of old_priority
\* is the number of cards left in the deck, and a move that draws a card
\* lowers it by one
C24_DistanceIsUndrawn ==
    /\ [](mode = "rwalk" => old_distance(rboard) = Len(rboard.deck))
    /\ [][(mode = "rwalk" /\ Len(rboard'.deck) = Len(rboard.deck) - 1) =>
             old_distance(rboard') = old_distance(rboard) - 1]_vars

\* foundation f of b (base card f + 1) is a prefix of its target sequence
TargetPrefix(b, f) ==
    \A k \in 1..Len(Pile(b, f)) :
        Pile(b, f)[k] = ((f + 1) * k) % cards_per_suit

\* pile q is pile p, or p with one card put on top
SameOrExtended(p, q) ==
    \/ q = p
    \/ Len(q) = Len(p) + 1 /\ SubSeq(q, 1, Len(p)) = p

\* C25: every foundation of every board of a game, and of every child
\* generated for it, is a prefix of its target sequence, and every move leaves
\* each foundation as it was or with one more card on top
C25_FoundationsGrow ==
    /\ [](mode = "walk" =>
            \A b \in Generated \cup {board} : \A f \in 0..3 :
                /\ TargetPrefix(b, f)
                /\ SameOrExtended(Pile(board, f), Pile(b, f)))
    /\ [][mode = "walk" =>
            \A f \in 0..3 : SameOrExtended(Pile(board, f), Pile(board', f))]_vars

\* a board made by moves from the deck and from a waste pile, with a
\* foundation of three cards or more and a move to a foundation on offer
C25_Witness ==
    /\ mode = "walk"
    /\ \E f \in 0..3 : Len(Pile(board, f)) >= 3
    /\ \E k \in 1..Len(board.moves) : board.moves[k][1] \in 4..7
    /\ \E c \in Generated : is_foundation(MoveOf(c)[2])

\* cards drawn (the four base cards included) plus cards on the foundations
Measure(b) == (b.last_used + 1) + SumSeq([f \in 1..4 |-> Len(b.piles[f])])

\* the children the loop of the k-th nested call has still to try
Remaining(st, k) == Len(st[k].children) + 1 - st[k].i

\* stack t comes after stack s in the order of a depth-first traversal: at the
\* first call where they differ t has fewer children left, or t is s with
\* one more call
Later(s, t) ==
    \/ /\ Len(t) = Len(s) + 1
       /\ \A k \in 1..Len(s) : Remaining(t, k) = Remaining(s, k)
    \/ \E k \in 1..Len(s) :
          /\ k <= Len(t)
          /\ Remaining(t, k) < Remaining(s, k)
          /\ \A j \in 1..(k - 1) : Remaining(t, j) = Remaining(s, j)

\* C26: in a play_ida run every child of a board dfs is expanding has a larger
\* (cards drawn + cards on foundations) than the board, so the boards of the
\* nested calls differ and there are at most 2 * (4 * cards_per_suit - 4)
\* calls below the root, no board has more than that many moves in its log,
\* and every step inside a pass moves the traversal on, so the pass ends
C26_MovesAreFinite ==
    /\ [](mode = "ida" =>
            /\ Len(stack) <= 2 * (4 * cards_per_suit - 4) + 1
            /\ \A k \in 1..Len(stack) :
                  /\ Remaining(stack, k) >= 0
                  /\ \A c \in Range(stack[k].children) :
                        /\ Measure(c) > Measure(stack[k].board)
                        /\ Len(c.moves) <= Measure(c) - Measure(NewBoard)
                        /\ Len(c.moves) <= 2 * (4 * cards_per_suit - 4)
                  /\ \A j \in 1..(k - 1) :
                        Measure(stack[j].board) < Measure(stack[k].board))
    /\ [][(mode = "ida" /\ pc = "dfs") =>
             (pc' = "pass_end" \/ Later(stack, stack'))]_vars

\* dfs three calls below the root, at a board whose log has a waste placement
\* and a move from a waste pile
C26_Witness ==
    /\ mode = "ida" /\ pc = "dfs" /\ Len(stack) >= 4
    /\ \E k \in 1..Len(Top.board.moves) : Top.board.moves[k][1] \in 4..7

\* C27: when a pass of play_ida ends without a winner, the threshold of the
\* next pass is +infinity or is greater than the threshold of that pass
C27_ThresholdIncreases ==
    [][(mode = "ida" /\ pc = "pass_end" /\ best_board = None) =>
          \/ threshold'.inf
          \/ ~threshold.inf /\ threshold'.val > threshold.val]_vars

\* the end, without a winner, of a pass that was not the first, with a finite
\* threshold for the next pass
C27_Witness ==
    /\ mode = "ida" /\ pc = "pass_end" /\ best_board = None
    /\ ~threshold.inf /\ threshold.val > priority(NewBoard)
    /\ ~next_threshold.inf

====
